---- MODULE Spec2Model ----
(***************************************************************************)
(* Model of bandit-exp (src/main.py): the reward source Arms, the strategy *)
(* base class BanditAlgorithm with its five subclasses, and the run loop   *)
(* that replays one configured algorithm slot over num_tries trials of     *)
(* maxtime steps and averages the recorded overall CTR per step.           *)
(*                                                                         *)
(* Numbers.  A Python float that is the quotient of two integers is kept   *)
(* as the reduced fraction <<n, d>> (Div); equal quotients give equal      *)
(* floats, so = on reduced fractions is == on the floats.  Probabilities   *)
(* (ps, epsilon) and the draws of random.random() are kept in hundredths,  *)
(* as the widgets deliver them (percent / 100.0).  The UCB scores, which   *)
(* involve log and sqrt, are kept in fixed point with Scale units per 1.   *)
(***************************************************************************)
EXTENDS Integers, Sequences, FiniteSets, TLC

\* ---------------------------------------------------------------- bounds
MaxTime == 2
MaxTries == 2

\* ------------------------------------------------------ program constants
\* "#arms": min_value=3, which is also the widget's initial value
NumArms == 3
\* "#maxtime" and "#tries for each algorithms": min_value=1
MinTime == 1
MinTries == 1
\* "CTR(%) for arm#i": value=3.0
DefaultP == 3

AlgNames == {"EGreedy", "Random", "ThomsonSampling", "UCB1", "UCB1Tuned"}

\* epsilon widget: min_value=0.0, max_value=1.0 (hundredths)
EpsilonValues == {0, 100}

\* CTR(%) widget: min_value=0.0, value=3.0, max_value=100.0
PValues == {0, DefaultP, 100}

\* random.random() returns a float in [0.0, 1.0): representative draws, in
\* hundredths, the smallest value 0.0 included
RandomDraws == {0, 50, 99}

\* numpy.random.beta(a, b), a > 0, b > 0: a float in [0.0, 1.0] whose support
\* does not depend on a and b; 0 stands for 0.0 and 1 < 2 for two positive
\* samples
ThetaSamples == {0, 1, 2}

\* the value a choose() "returns" when it raises instead
Raise == -1

VARIABLES
    algname, epsilon, num, ps, maxtime, num_tries,
    displayed, clicked, ctr,
    pc, i, click, ctrs, tries, table, error, rewards

config == <<algname, epsilon, num, ps, maxtime, num_tries>>
vars == <<algname, epsilon, num, ps, maxtime, num_tries,
          displayed, clicked, ctr,
          pc, i, click, ctrs, tries, table, error, rewards>>

Arms == 0 .. (num - 1)

\* ------------------------------------------------------------- arithmetic
RECURSIVE GCD(_, _)
GCD(a, b) == IF b = 0 THEN a ELSE GCD(b, a % b)

\* the float a / b, b > 0
Div(a, b) == IF a = 0 THEN <<0, 1>> ELSE <<a \div GCD(a, b), b \div GCD(a, b)>>

FAdd(x, y) == Div(x[1] * y[2] + y[1] * x[2], x[2] * y[2])
FDivInt(x, k) == Div(x[1], x[2] * k)
FMulInt(x, k) == Div(x[1] * k, x[2])
FLeq(x, y) == x[1] * y[2] <= y[1] * x[2]
FLess(x, y) == x[1] * y[2] < y[1] * x[2]

RECURSIVE SumTo(_, _)
SumTo(f, k) == IF k = 0 THEN 0 ELSE f[k - 1] + SumTo(f, k - 1)

\* sum(list) of a per-arm list
Sum(f) == SumTo(f, num)

Scale == 100 * 100

\* round(math.log(n) * Scale), n = 1 .. 40
LnTable == <<0, 6931, 10986, 13863, 16094, 17918, 19459, 20794, 21972, 23026,
             23979, 24849, 25649, 26391, 27081, 27726, 28332, 28904, 29444, 29957,
             30445, 30910, 31355, 31781, 32189, 32581, 32958, 33322, 33673, 34012,
             34340, 34657, 34965, 35264, 35553, 35835, 36109, 36376, 36636, 36889>>

Ln(n) == LnTable[n]

RECURSIVE SqrtBetween(_, _, _)
SqrtBetween(v, lo, hi) ==
    IF lo >= hi THEN lo
    ELSE LET mid == (lo + hi + 1) \div 2
         IN IF mid * mid <= v THEN SqrtBetween(v, mid, hi)
                              ELSE SqrtBetween(v, lo, mid - 1)

\* floor(math.sqrt(v)) for 0 <= v < 40000 ^ 2
ISqrt(v) == SqrtBetween(v, 0, 40000)

\* Scale * math.sqrt(k * math.log(n) / d)
SqrtLnOver(k, n, d) == ISqrt((k * Ln(n) * Scale) \div d)

Min2(a, b) == IF a <= b THEN a ELSE b
Max2(a, b) == IF a >= b THEN a ELSE b

\* the scan "if theta > max_theta: max_theta = theta; max_arm_index = i"
\* over arms k .. num-1
RECURSIVE ScanMax(_, _, _, _)
ScanMax(theta, k, max_theta, max_arm_index) ==
    IF k >= num THEN max_arm_index
    ELSE IF theta[k] > max_theta
         THEN ScanMax(theta, k + 1, theta[k], k)
         ELSE ScanMax(theta, k + 1, max_theta, max_arm_index)

\* -------------------------------------------------------------- choose()
\* Each choose is the set of values the call can return over its random
\* draws (Raise: the call raises).

\* faulty variant of randrange: the upper end included
randrange_inclusive(n) == IF n <= 0 THEN {Raise} ELSE 0 .. n

\* random.randrange(n): ValueError on an empty range
randrange(n) == IF n <= 0 THEN {Raise} ELSE 0 .. (n - 1)

\* faulty variant of maxarms: the ties compared with > instead of >=
maxarms_strict ==
    LET maxctr == CHOOSE m \in {ctr[a] : a \in Arms} : \A a \in Arms : FLeq(ctr[a], m)
    IN {a \in Arms : FLess(maxctr, ctr[a])}

\* max(self.ctr) and the arms whose ctr is >= it
maxarms ==
    LET maxctr == CHOOSE m \in {ctr[a] : a \in Arms} : \A a \in Arms : FLeq(ctr[a], m)
    IN {a \in Arms : FLeq(maxctr, ctr[a])}

\* random.choice(seq): IndexError on an empty sequence
choice(s) == IF s = {} THEN {Raise} ELSE s

EGreedyChoose ==
    UNION { IF epsilon < r
            THEN randrange(num)
            ELSE IF num = 0 THEN {Raise} ELSE choice(maxarms)
          : r \in RandomDraws }

RandomChoose == randrange(num)

ThomsonChoose ==
    {ScanMax(theta, 0, 0, 0) : theta \in [Arms -> ThetaSamples]}

\* the first loop of UCB1.choose / UCB1Tuned.choose: the arms never displayed
ColdArms == {a \in Arms : displayed[a] = 0}

\* "for i in range(num): if ...: return i": the lowest index of s
FirstOf(s) == CHOOSE a \in s : \A b \in s : a <= b

UCB1Theta ==
    LET n == Sum(displayed)
    IN [a \in Arms |->
          (clicked[a] * Scale) \div displayed[a] + SqrtLnOver(2, n, displayed[a])]

\* faulty variant of UCB1Choose: no cold-start loop, the arms scored at once (an arm
\* never displayed scores 0)
UCB1Choose_noColdStart ==
    {ScanMax([a \in Arms |->
                IF displayed[a] = 0
                THEN 0
                ELSE (clicked[a] * Scale) \div displayed[a]
                     + SqrtLnOver(2, Sum(displayed), displayed[a])], 0, 0, 0)}

UCB1Choose ==
    IF ColdArms # {} THEN {FirstOf(ColdArms)} ELSE {ScanMax(UCB1Theta, 0, 0, 0)}

UCB1TunedTheta ==
    LET n == Sum(displayed)
    IN [a \in Arms |->
          LET variance ==
                (clicked[a] * (displayed[a] - clicked[a]) * Scale)
                    \div (Max2(1, displayed[a]) * Max2(1, displayed[a]))
                + SqrtLnOver(2, n, displayed[a])
          IN (clicked[a] * Scale) \div displayed[a]
             + Min2(SqrtLnOver(1, n, displayed[a]), variance)]

UCB1TunedChoose ==
    IF ColdArms # {} THEN {FirstOf(ColdArms)} ELSE {ScanMax(UCB1TunedTheta, 0, 0, 0)}

Choose ==
    CASE algname = "EGreedy" -> EGreedyChoose
      [] algname = "Random" -> RandomChoose
      [] algname = "ThomsonSampling" -> ThomsonChoose
      [] algname = "UCB1" -> UCB1Choose
      [] algname = "UCB1Tuned" -> UCB1TunedChoose

\* ------------------------------------------------- BanditAlgorithm state
\* faulty variant of display_displayed: "=+ 1" for "+= 1"
display_displayed_assign(a) == [displayed EXCEPT ![a] = 1]

\* display(): self.displayed[i] += 1
display_displayed(a) == [displayed EXCEPT ![a] = @ + 1]

\* faulty variant of display_ctr: the running CTR left as it was
display_ctr_stale(d, a) == ctr

\* display(): self.ctr[i] = self.clicked[i] / self.displayed[i], d the
\* incremented displayed
display_ctr(d, a) == [ctr EXCEPT ![a] = Div(clicked[a], d[a])]

\* reward(): if clicked: self.clicked[i] += 1
reward_clicked(a, c) == IF c THEN [clicked EXCEPT ![a] = @ + 1] ELSE clicked

ctr_overall ==
    LET sum_displayed == Sum(displayed)
        sum_clicked == Sum(clicked)
    IN IF sum_displayed = 0 THEN <<0, 1>> ELSE Div(sum_clicked, sum_displayed)

\* Arms.choose(i): random.random() < p
ArmsChoose(a, r) == r < ps[a]

\* ------------------------------------------------------------------ Init
InitWith(armCounts, stepCounts, tryCounts) ==
    /\ algname \in AlgNames
    /\ epsilon \in (IF algname = "EGreedy" THEN EpsilonValues ELSE {0})
    /\ num \in armCounts
    /\ ps \in {[a \in 0 .. (num - 1) |-> p] : p \in PValues}
    /\ maxtime \in stepCounts
    /\ num_tries \in tryCounts
    /\ displayed = [a \in 0 .. (num - 1) |-> 0]
    /\ clicked = [a \in 0 .. (num - 1) |-> 0]
    /\ ctr = [a \in 0 .. (num - 1) |-> <<0, 1>>]
    /\ pc = "trial"
    /\ i = 0
    /\ click = FALSE
    /\ ctrs = <<>>
    /\ tries = <<>>
    /\ table = <<>>
    /\ error = "none"
    /\ rewards = 0

\* the configurations the widgets let through
Init == InitWith({NumArms}, MinTime .. MaxTime, MinTries .. MaxTries)

\* the configurations the classes and the loop accept when called directly
InitCore == InitWith(0 .. NumArms, 0 .. MaxTime, 0 .. MaxTries)

\* --------------------------------------------------------------- actions
Fail(e) ==
    /\ error' = e
    /\ pc' = "done"

\* for _ in range(num_tries): ctrs = []; for t in range(maxtime): ...
TrialHead ==
    /\ pc = "trial"
    /\ IF Len(tries) >= num_tries
       THEN /\ pc' = "aggregate"
            /\ UNCHANGED <<ctrs, tries>>
       ELSE IF maxtime = 0
            THEN /\ tries' = Append(tries, <<>>)
                 /\ ctrs' = <<>>
                 /\ pc' = "trial"
            ELSE /\ ctrs' = <<>>
                 /\ pc' = "display"
                 /\ UNCHANGED tries
    /\ UNCHANGED <<config, displayed, clicked, ctr, i, click, table, error, rewards>>

\* i = alg.display()
Display ==
    /\ pc = "display"
    /\ \E a \in Choose :
         IF a = Raise
         THEN /\ Fail("ValueError")
              /\ UNCHANGED <<displayed, ctr, i>>
         ELSE IF a \notin Arms
              THEN /\ Fail("IndexError")
                   /\ UNCHANGED <<displayed, ctr, i>>
              ELSE /\ displayed' = display_displayed(a)
                   /\ ctr' = display_ctr(displayed', a)
                   /\ i' = a
                   /\ pc' = "resolve"
                   /\ UNCHANGED error
    /\ UNCHANGED <<config, clicked, click, ctrs, tries, table, rewards>>

\* clicked = arms.choose(i)
Resolve ==
    /\ pc = "resolve"
    /\ IF i \notin Arms
       THEN /\ Fail("AssertionError")
            /\ UNCHANGED click
       ELSE /\ \E r \in RandomDraws : click' = ArmsChoose(i, r)
            /\ pc' = "reward"
            /\ UNCHANGED error
    /\ UNCHANGED <<config, displayed, clicked, ctr, i, ctrs, tries, table, rewards>>

\* alg.reward(i, clicked)
Reward ==
    /\ pc = "reward"
    /\ rewards' = rewards + 1
    /\ clicked' = reward_clicked(i, click)
    /\ IF click
       THEN IF displayed[i] = 0
            THEN /\ Fail("ZeroDivisionError")
                 /\ UNCHANGED ctr
            ELSE /\ ctr' = [ctr EXCEPT ![i] = Div(clicked'[i], displayed[i])]
                 /\ pc' = "record"
                 /\ UNCHANGED error
       ELSE /\ pc' = "record"
            /\ UNCHANGED <<ctr, error>>
    /\ UNCHANGED <<config, displayed, i, click, ctrs, tries, table>>

\* ctrs.append(alg.ctr_overall()); after the last step tries.append(ctrs)
Record ==
    /\ pc = "record"
    /\ LET appended == Append(ctrs, ctr_overall)
       IN IF Len(appended) < maxtime
          THEN /\ ctrs' = appended
               /\ pc' = "display"
               /\ UNCHANGED tries
          ELSE /\ ctrs' = appended
               /\ tries' = Append(tries, appended)
               /\ pc' = "trial"
    /\ UNCHANGED <<config, displayed, clicked, ctr, i, click, table, error, rewards>>

RECURSIVE SumTries(_, _)
\* sum(tries[j][t] for j in range(k))
SumTries(t, k) == IF k = 0 THEN <<0, 1>> ELSE FAdd(SumTries(t, k - 1), tries[k][t])

\* faulty variant of Mean100: the sum divided by the number of steps
Mean100_overSteps(t) == FMulInt(FDivInt(SumTries(t, num_tries), maxtime), 100)

\* sum(...) / num_tries * 100.0
Mean100(t) == FMulInt(FDivInt(SumTries(t, num_tries), num_tries), 100)

\* ctrs = [... for t in range(maxtime)]; table.append(ctrs)
Aggregate ==
    /\ pc = "aggregate"
    /\ IF maxtime > 0 /\ num_tries = 0
       THEN /\ Fail("ZeroDivisionError")
            /\ UNCHANGED <<ctrs, table>>
       ELSE /\ ctrs' = [t \in 1 .. maxtime |-> Mean100(t)]
            /\ table' = Append(table, ctrs')
            /\ pc' = "done"
            /\ UNCHANGED error
    /\ UNCHANGED <<config, displayed, clicked, ctr, i, click, tries, rewards>>

Next ==
    \/ TrialHead
    \/ Display
    \/ Resolve
    \/ Reward
    \/ Record
    \/ Aggregate

Spec == Init /\ [][Next]_vars

SpecCore == InitCore /\ [][Next]_vars

\* ================================================================ claims
Zero == <<0, 1>>
One == <<1, 1>>
Last(s) == s[Len(s)]
UCBNames == {"UCB1", "UCB1Tuned"}

\* C1: in every state of the run loop, for every strategy and every arm,
\* clicked[a] <= displayed[a] and 0 <= ctr[a] <= 1.
C1_CountersBounded ==
    \A a \in Arms :
        /\ clicked[a] <= displayed[a]
        /\ FLeq(Zero, ctr[a])
        /\ FLeq(ctr[a], One)

\* the boundary case: an arm shown at least twice, every display a click
C1_Witness ==
    /\ pc = "record"
    /\ click
    /\ displayed[i] >= 2
    /\ clicked[i] = displayed[i]

\* C2: after every display() and every reward() of the run loop, a reward
\* with a miss included, ctr[a] is clicked[a] / displayed[a] when
\* displayed[a] > 0 and 0 when displayed[a] = 0: it is never stale.
C2_RunningCtrFresh ==
    \A a \in Arms :
        ctr[a] = IF displayed[a] > 0 THEN Div(clicked[a], displayed[a]) ELSE Zero

\* a miss rewarded on an arm that has a click from an earlier step
C2_Witness ==
    /\ pc = "record"
    /\ ~click
    /\ clicked[i] >= 1

\* C3 (as claimed): at the first step of every trial the counters are fresh,
\* all displayed[a] = 0 and clicked[a] = 0.
C3_TrialStartsFresh ==
    (pc = "display" /\ ctrs = <<>>) =>
        \A a \in Arms : displayed[a] = 0 /\ clicked[a] = 0

\* C4 (as claimed): EGreedy with epsilon = 0.0 never explores: when one arm
\* has a strictly higher ctr than every other arm, choose() returns that arm
\* for every random draw.
C4_EpsilonZeroExploits ==
    (pc = "display" /\ algname = "EGreedy" /\ epsilon = 0) =>
        \A a \in Arms :
            (\A b \in Arms \ {a} : FLess(ctr[b], ctr[a])) => Choose = {a}

\* C5 (as claimed): EGreedy with epsilon = 1.0 always explores: in every
\* state the arms choose() can return are the whole range 0 .. num-1.
C5_EpsilonOneExplores ==
    (pc = "display" /\ algname = "EGreedy" /\ epsilon = 100) => Choose = Arms

\* C6: UCB1 and UCB1Tuned, cold start: whenever some arm has zero displays
\* choose() returns the lowest-index such arm, and the first num displays of
\* a freshly constructed strategy are of arms 0, 1, ..., num-1 in that order
\* whatever the rewards in between.
C6_ColdStart ==
    algname \in UCBNames =>
        /\ (\E a \in Arms : displayed[a] = 0) =>
               \E a \in Arms :
                   /\ Choose = {a}
                   /\ displayed[a] = 0
                   /\ \A b \in Arms : b < a => displayed[b] > 0
        /\ Sum(displayed) <= num =>
               \A a \in Arms : displayed[a] = IF a < Sum(displayed) THEN 1 ELSE 0

\* the last cold-start display has been made, with a click before it
C6_Witness ==
    /\ algname \in UCBNames
    /\ pc = "resolve"
    /\ Sum(displayed) = num
    /\ i = num - 1
    /\ Sum(clicked) >= 1

\* C7 (as claimed, any raised exception taken for the rejection): a run
\* configured with num = 0, maxtime = 0 or num_tries = 0 ends with an error
\* and appends no aggregated series.
C7_DegenerateRejected ==
    (num = 0 \/ maxtime = 0 \/ num_tries = 0) =>
        /\ table = <<>>
        /\ pc = "done" => error # "none"

\* C8: with maxtime >= 1 and num_tries >= 1 the run emits one series of
\* length maxtime whose value at step t is 100 times the mean over the trials
\* of the overall CTR (sum of clicked / sum of displayed) recorded after step
\* t of each trial, every value in [0, 100].
C8_AggregatedSeries ==
    /\ (pc \in {"display", "trial"} /\ ctrs # <<>>) =>
           Last(ctrs) = Div(Sum(clicked), Sum(displayed))
    /\ \A j \in 1 .. Len(tries) :
           /\ Len(tries[j]) = maxtime
           /\ \A t \in 1 .. maxtime :
                  FLeq(Zero, tries[j][t]) /\ FLeq(tries[j][t], One)
    /\ (pc = "trial" /\ tries # <<>>) => Last(tries) = ctrs
    /\ pc # "done" => table = <<>>
    /\ pc = "done" =>
           /\ Len(tries) = num_tries
           /\ Len(table) = 1
           /\ Len(table[1]) = maxtime
           /\ \A t \in 1 .. maxtime :
                  /\ FMulInt(table[1][t], num_tries)
                         = FMulInt(SumTries(t, num_tries), 100)
                  /\ FLeq(Zero, table[1][t])
                  /\ FLeq(table[1][t], <<100, 1>>)

\* a finished run of two trials of two steps whose series moves
C8_Witness ==
    /\ pc = "done"
    /\ maxtime = 2
    /\ num_tries = 2
    /\ tries[1] # tries[2]
    /\ table[1][1] # table[1][2]
    /\ table[1][2] # Zero

\* C9: for each of the five strategies, in every reachable state, choose()
\* returns an index in 0 .. num-1 (never raises, the tie set of EGreedy is
\* never empty, the fallback index 0 is valid) and changes nothing: all that
\* display() changes is displayed[i] and ctr[i] of the arm i it returns.
C9_SelectArm ==
    [][pc = "display" =>
          /\ Choose # {}
          /\ Choose \subseteq Arms
          /\ i' \in Choose
          /\ clicked' = clicked
          /\ displayed'[i'] = displayed[i'] + 1
          /\ \A a \in Arms \ {i'} :
                 displayed'[a] = displayed[a] /\ ctr'[a] = ctr[a]]_vars

\* a display made by the scoring loop of a UCB strategy, past the cold start
C9_Witness ==
    /\ algname \in UCBNames
    /\ pc = "resolve"
    /\ Sum(displayed) > num

\* C10: every reward(i, clicked) of the run loop is for the arm of the
\* display() just before it, one reward per display: at the reward the arm is
\* in 0 .. num-1 with displayed[i] >= 1, so neither the division in reward()
\* nor the assertion in Arms.choose() fails.
C10_RewardFollowsDisplay ==
    /\ error = "none"
    /\ pc \in {"resolve", "reward"} =>
           /\ i \in Arms
           /\ displayed[i] >= 1
           /\ rewards + 1 = Sum(displayed)
    /\ pc \notin {"resolve", "reward"} => rewards = Sum(displayed)

\* the first reward of an arm, a click: the division is by displayed[i] = 1
C10_Witness ==
    /\ pc = "record"
    /\ click
    /\ displayed[i] = 1
    /\ rewards >= 2

====
